---- MODULE Spec2Model ----
(***************************************************************************)
(* namedlock: a LockSpace<K,V> holds many Mutex<V>, keyed by K.            *)
(*                                                                         *)
(* The model follows src/src/lib.rs, src/src/arcmutexguard.rs and, in its   *)
(* last part, src/src/ownedmutexguard.rs.  Threads                         *)
(* share one LockSpace (through clones, which share the Arc `names`).      *)
(* An entry of the map is an Arc<Mutex<V>>: it lives in a heap slot with   *)
(* a strong count, a lock bit, a poison bit and the protected value.       *)
(***************************************************************************)
EXTENDS Naturals, FiniteSets

\* ---------------------------------------------------------------- bounds
NThreads == 2
NKeys == 2
MaxCalls == 2

Threads == 1..NThreads
Keys == 1..NKeys
\* Heap slots for Arc<Mutex<V>> allocations: the code allocates one per
\* inserted key, so one spare slot beyond the keys is never exhausted.
Slots == 1..(NKeys + 1)

NoThread == 0
NoEntry == 0
NoKey == 0

\* no guard is held around the current call
NoGuard == << NoKey, NoEntry >>

\* `initial` of the doc examples and tests: ||0
InitialValue == 0

VARIABLES
    cleanup,         \* LockSpace.cleanup: "KeepUnused" or "AutoCleanup"
    names,           \* the HashMap behind LockSpace.names: key -> slot or NoEntry
    outer,           \* thread holding the Mutex of LockSpace.names, or NoThread
    outer_poisoned,  \* poison flag of the Mutex of LockSpace.names
    strong,          \* strong_count of the Arc<Mutex<V>> in each slot (0: not allocated)
    inner_locked,    \* lock bit of the Mutex<V> in each slot
    inner_poisoned,  \* poison flag of the Mutex<V> in each slot
    value,           \* the V protected by the Mutex<V> in each slot
    pc,              \* position of each thread in the code
    key,             \* the `key` argument of the call a thread is in, or NoKey
    target,          \* the slot a thread's `target` / guard `entry` refers to
    buf,             \* the value a critical section has read
    panicking,       \* the thread is unwinding from a panic
    ran_initial,     \* the thread's current lock call invoked `initial`
    result,          \* outcome of the thread's last call, once it has finished
    todo,            \* number of calls the threads may still start
    enclosing        \* the guard a thread holds around the call it is in

vars == << cleanup, names, outer, outer_poisoned, strong, inner_locked,
           inner_poisoned, value, pc, key, target, buf, panicking,
           ran_initial, result, todo, enclosing >>

space_vars == << names, outer, outer_poisoned, strong, inner_locked,
                 inner_poisoned, value >>

\* ------------------------------------------------------------- helpers

\* Arc::clone / drop of an Arc on the strong count
ArcClone(cnt, e) == [cnt EXCEPT ![e] = @ + 1]
ArcDrop(cnt, e) == [cnt EXCEPT ![e] = @ - 1]

\* alloc::arc::strong_count
strong_count(cnt, e) == cnt[e]

\* Arc::new: the allocation takes a slot no Arc refers to
FreeSlots(cnt) == { e \in Slots : cnt[e] = 0 }
NewSlot(cnt) == CHOOSE e \in FreeSlots(cnt) : \A f \in FreeSlots(cnt) : e <= f

\* Dropping the last Arc destroys the Mutex<V> and its value
Destroyed(f, cnt, dflt) == [e \in Slots |-> IF cnt[e] = 0 THEN dflt ELSE f[e]]

\* A process abort (panic while panicking) has ended every thread
Aborted == \A t \in Threads : pc[t] = "aborted"

Init ==
    /\ cleanup \in {"KeepUnused", "AutoCleanup"}
    /\ names = [k \in Keys |-> NoEntry]
    /\ outer = NoThread
    /\ outer_poisoned = FALSE
    /\ strong = [e \in Slots |-> 0]
    /\ inner_locked = [e \in Slots |-> FALSE]
    /\ inner_poisoned = [e \in Slots |-> FALSE]
    /\ value = [e \in Slots |-> InitialValue]
    /\ pc = [t \in Threads |-> "idle"]
    /\ key = [t \in Threads |-> NoKey]
    /\ target = [t \in Threads |-> NoEntry]
    /\ buf = [t \in Threads |-> 0]
    /\ panicking = [t \in Threads |-> FALSE]
    /\ ran_initial = [t \in Threads |-> FALSE]
    /\ result = [t \in Threads |-> "none"]
    /\ todo = MaxCalls
    /\ enclosing = [t \in Threads |-> NoGuard]

\* --------------------------------------------------- the names Mutex
\* (a lock that does not exclude: the outer lock is not waited for)
NamesAvailable_no_wait(t) == TRUE

\* self.names.lock(): blocks until the Mutex is free
NamesAvailable(t) == outer = NoThread

\* ------------------------------------------------------ LockSpace::lock

\* Each thread makes calls on its clone of the LockSpace, one after another:
\* lock / with_lock, or try_remove.  Until it holds the outer lock a call has
\* touched nothing shared, so a thread at "idle" is one that is between two
\* calls, or has called and waits for the outer lock.

\* let mut map=self.names.lock().unwrap();  (Ok)
LockNamesLock(t, k) ==
    /\ pc[t] = "idle"
    /\ NamesAvailable(t)
    /\ ~outer_poisoned
    /\ todo > 0
    /\ todo' = todo - 1
    /\ result' = [result EXCEPT ![t] = "none"]
    /\ outer' = t
    /\ key' = [key EXCEPT ![t] = k]
    /\ pc' = [pc EXCEPT ![t] = "lock_find"]
    /\ UNCHANGED << cleanup, names, outer_poisoned, strong, inner_locked,
                    inner_poisoned, value, target, buf, panicking,
                    ran_initial, enclosing >>

\* map.contains_key(key.borrow())
contains_key(m, k) == m[k] # NoEntry

\* let target=map.get(key).unwrap().clone();  target.1.clone()
\* (the two clones of the entry's Arc that a lock call takes)
GetClone(cnt, e) == ArcClone(ArcClone(cnt, e), e)

\* (the outer lock released right after the lookup and the clones, before
\* the inner Mutex is locked)
LockFind_releases_names(t) ==
    /\ pc[t] = "lock_find"
    /\ IF contains_key(names, key[t])
       THEN /\ strong' = GetClone(strong, names[key[t]])
            /\ target' = [target EXCEPT ![t] = names[key[t]]]
            /\ pc' = [pc EXCEPT ![t] = "lock_inner"]
            /\ outer' = NoThread
       ELSE /\ pc' = [pc EXCEPT ![t] = "lock_initial"]
            /\ UNCHANGED << strong, target, outer >>
    /\ UNCHANGED << cleanup, names, outer_poisoned, inner_locked,
                    inner_poisoned, value, key, buf, panicking, ran_initial,
                    result, todo, enclosing >>

\* if !map.contains_key(key.borrow()) { .. }: an absent key goes on to
\* `initial`; a present one is looked up and cloned
LockFind(t) ==
    /\ pc[t] = "lock_find"
    /\ IF contains_key(names, key[t])
       THEN /\ strong' = GetClone(strong, names[key[t]])
            /\ target' = [target EXCEPT ![t] = names[key[t]]]
            /\ pc' = [pc EXCEPT ![t] = "lock_inner"]
       ELSE /\ pc' = [pc EXCEPT ![t] = "lock_initial"]
            /\ UNCHANGED << strong, target >>
    /\ UNCHANGED << cleanup, names, outer, outer_poisoned, inner_locked,
                    inner_poisoned, value, key, buf, panicking, ran_initial,
                    result, todo, enclosing >>

\* map.insert(key.clone(),(key,mutex)) drops an entry it replaces
InsertStrong(m, cnt, k, e) ==
    LET c == [cnt EXCEPT ![e] = 1]
    IN IF m[k] # NoEntry THEN ArcDrop(c, m[k]) ELSE c

\* let mutex=Arc::new(Mutex::new(initial()));  map.insert(..);
\* then the lookup and the two clones
LockInsert(t) ==
    /\ pc[t] = "lock_initial"
    /\ FreeSlots(strong) # {}
    /\ LET k == key[t]
           e == NewSlot(strong)
       IN /\ names' = [names EXCEPT ![k] = e]
          /\ strong' = GetClone(InsertStrong(names, strong, k, e), e)
          /\ value' = [value EXCEPT ![e] = InitialValue]
          /\ inner_locked' = [inner_locked EXCEPT ![e] = FALSE]
          /\ inner_poisoned' = [inner_poisoned EXCEPT ![e] = FALSE]
          /\ target' = [target EXCEPT ![t] = e]
    /\ ran_initial' = [ran_initial EXCEPT ![t] = TRUE]
    /\ pc' = [pc EXCEPT ![t] = "lock_inner"]
    /\ UNCHANGED << cleanup, outer, outer_poisoned, key, buf, panicking,
                    result, todo, enclosing >>

\* (the unwinding out of initial() leaves the names Mutex clean)
LockInitialPanics_no_poison(t) ==
    /\ pc[t] = "lock_initial"
    /\ outer' = NoThread
    /\ pc' = [pc EXCEPT ![t] = "panicked"]
    /\ key' = [key EXCEPT ![t] = NoKey]
    /\ result' = [result EXCEPT ![t] = "panic"]
    /\ UNCHANGED << cleanup, names, outer_poisoned, strong, inner_locked,
                    inner_poisoned, value, target, buf, panicking,
                    ran_initial, todo, enclosing >>

\* initial() panics: the guard of names is dropped while unwinding, which
\* poisons the names Mutex; nothing was inserted
LockInitialPanics(t) ==
    /\ pc[t] = "lock_initial"
    /\ outer' = NoThread
    /\ outer_poisoned' = TRUE
    /\ pc' = [pc EXCEPT ![t] = "panicked"]
    /\ key' = [key EXCEPT ![t] = NoKey]
    /\ result' = [result EXCEPT ![t] = "panic"]
    /\ UNCHANGED << cleanup, names, strong, inner_locked, inner_poisoned,
                    value, target, buf, panicking, ran_initial, todo, enclosing >>

\* (a lock that does not exclude: the inner lock is not waited for)
InnerAvailable_no_wait(t) == TRUE

\* Mutex::lock of the inner Mutex: blocks until it is free
InnerAvailable(t) == ~inner_locked[target[t]]

\* (the poison flag not looked at: the lock is handed out as if it were clean)
arc_mutex_lock_ignores_poison(t) ==
    /\ pc[t] = "lock_inner"
    /\ InnerAvailable(t)
    /\ inner_locked' = [inner_locked EXCEPT ![target[t]] = TRUE]
    /\ pc' = [pc EXCEPT ![t] = "lock_guarded"]
    /\ UNCHANGED << cleanup, names, outer, outer_poisoned, strong,
                    inner_poisoned, value, key, target, buf, panicking,
                    ran_initial, result, todo, enclosing >>

\* arc_mutex_lock(target.1.clone()): on a poisoned Mutex the std guard inside
\* the error and the Arc argument are dropped before it returns Err
arc_mutex_lock(t) ==
    /\ pc[t] = "lock_inner"
    /\ InnerAvailable(t)
    /\ LET e == target[t]
       IN IF inner_poisoned[e]
          THEN /\ strong' = ArcDrop(strong, e)
               /\ pc' = [pc EXCEPT ![t] = "lock_poisoned"]
               /\ UNCHANGED inner_locked
          ELSE /\ inner_locked' = [inner_locked EXCEPT ![e] = TRUE]
               /\ pc' = [pc EXCEPT ![t] = "lock_guarded"]
               /\ UNCHANGED strong
    /\ UNCHANGED << cleanup, names, outer, outer_poisoned, inner_poisoned,
                    value, key, target, buf, panicking, ran_initial, result, todo, enclosing >>

\* drop::<MutexGuard<_>>(map); then Ok(LockSpaceGuard{..}) is returned
LockRelease(t) ==
    /\ pc[t] \in {"lock_guarded", "lock_poisoned"}
    /\ outer' = NoThread
    /\ IF pc[t] = "lock_guarded"
       THEN /\ pc' = [pc EXCEPT ![t] = "held"]
            /\ result' = [result EXCEPT ![t] = "guard"]
       ELSE /\ pc' = [pc EXCEPT ![t] = "lock_err"]
            /\ UNCHANGED result
    /\ UNCHANGED << cleanup, names, outer_poisoned, strong, inner_locked,
                    inner_poisoned, value, key, target, buf, panicking,
                    ran_initial, todo, enclosing >>

\* result.map(..).map_err(|_|PoisonError::new()) on Err: the closure that
\* owns `target` is dropped, after the outer lock was released
LockErr(t) ==
    /\ pc[t] = "lock_err"
    /\ strong' = ArcDrop(strong, target[t])
    /\ target' = [target EXCEPT ![t] = NoEntry]
    /\ ran_initial' = [ran_initial EXCEPT ![t] = FALSE]
    /\ result' = [result EXCEPT ![t] = "Poisoned"]
    /\ key' = [key EXCEPT ![t] = NoKey]
    /\ pc' = [pc EXCEPT ![t] = "idle"]
    /\ UNCHANGED << cleanup, names, outer, outer_poisoned, inner_locked,
                    inner_poisoned, value, buf, panicking, todo, enclosing >>

\* ------------------------------------- the critical section (f, or the
\* caller's use of the guard): a non-atomic read-then-write increment

BodyRead(t) ==
    /\ pc[t] = "held"
    /\ buf' = [buf EXCEPT ![t] = value[target[t]]]
    /\ pc' = [pc EXCEPT ![t] = "body"]
    /\ UNCHANGED << cleanup, space_vars, key, target, panicking, ran_initial,
                    result, todo, enclosing >>

BodyWrite(t) ==
    /\ pc[t] = "body"
    /\ value' = [value EXCEPT ![target[t]] = buf[t] + 1]
    /\ buf' = [buf EXCEPT ![t] = 0]
    /\ pc' = [pc EXCEPT ![t] = "wrote"]
    /\ UNCHANGED << cleanup, names, outer, outer_poisoned, strong,
                    inner_locked, inner_poisoned, key, target, panicking,
                    ran_initial, result, todo, enclosing >>

\* the critical section panics while the guard is live
BodyPanics(t) ==
    /\ pc[t] = "held"
    /\ panicking' = [panicking EXCEPT ![t] = TRUE]
    /\ result' = [result EXCEPT ![t] = "panic"]
    /\ pc' = [pc EXCEPT ![t] = "unwind"]
    /\ UNCHANGED << cleanup, space_vars, key, target, buf, ran_initial, todo, enclosing >>

\* ------------------------------------- LockSpace::try_remove_internal
\* (the caller holds the outer lock; `e` is its `target`, `k` = target.0)

\* (poison not reported by try_lock)
try_lock_ignores_poison(lk, po, e) ==
    IF lk[e] THEN "WouldBlock" ELSE "Ok"

\* Mutex::try_lock of the inner Mutex
try_lock(lk, po, e) ==
    IF lk[e] THEN "WouldBlock"
    ELSE IF po[e] THEN "Poisoned"
    ELSE "Ok"

\* (the baseline taken to be the map's reference alone)
try_remove_internal_baseline_1(m, cnt, lk, po, e, k) ==
    IF strong_count(cnt, e) > 1 THEN "WouldBlock"
    ELSE IF try_lock(lk, po, e) = "WouldBlock" THEN "WouldBlock"
    ELSE IF try_lock(lk, po, e) = "Poisoned" THEN "PoisonError"
    ELSE IF m[k] # NoEntry THEN "Success"
    ELSE "NotFound"

\* (the reference-count test left out: only try_lock decides)
try_remove_internal_no_count(m, cnt, lk, po, e, k) ==
    IF try_lock(lk, po, e) = "WouldBlock" THEN "WouldBlock"
    ELSE IF try_lock(lk, po, e) = "Poisoned" THEN "PoisonError"
    ELSE IF m[k] # NoEntry THEN "Success"
    ELSE "NotFound"

\* (a poisoned Mutex treated like a free one: its entry is removed)
try_remove_internal_removes_poisoned(m, cnt, lk, po, e, k) ==
    IF strong_count(cnt, e) > 2 THEN "WouldBlock"
    ELSE IF try_lock(lk, po, e) = "WouldBlock" THEN "WouldBlock"
    ELSE IF m[k] # NoEntry THEN "Success"
    ELSE "NotFound"

try_remove_internal(m, cnt, lk, po, e, k) ==
    IF strong_count(cnt, e) > 2 THEN "WouldBlock"
    ELSE IF try_lock(lk, po, e) = "WouldBlock" THEN "WouldBlock"
    ELSE IF try_lock(lk, po, e) = "Poisoned" THEN "PoisonError"
    ELSE IF m[k] # NoEntry THEN "Success"   \* map.remove(&target.0) is Some
    ELSE "NotFound"

\* map.remove(&target.0) took the entry out of the map
RemovedNames(m, k, r) == IF r = "Success" THEN [m EXCEPT ![k] = NoEntry] ELSE m

\* the removed entry's Arc and then `target` are dropped
RemovedStrong(m, cnt, e, k, r) ==
    ArcDrop(IF r = "Success" THEN ArcDrop(cnt, m[k]) ELSE cnt, e)

\* ------------------------------------------ Drop for LockSpaceGuard

\* (the policy is not looked at: every drop cleans up)
IsAutoCleanup_always(c) == TRUE

\* self.owner.cleanup==AutoCleanup
IsAutoCleanup(c) == c = "AutoCleanup"

\* (the drop takes the outer lock first: the inner Mutex is unlocked only
\* once the names Mutex is free)
DropGuard_after_names(t) ==
    /\ pc[t] \in {"held", "wrote", "unwind"}
    /\ NamesAvailable(t)
    /\ LET e == target[t]
       IN /\ inner_locked' = [inner_locked EXCEPT ![e] = FALSE]
          /\ inner_poisoned' = [inner_poisoned EXCEPT ![e] = @ \/ panicking[t]]
    /\ pc' = [pc EXCEPT ![t] = "drop_arc"]
    /\ UNCHANGED << cleanup, names, outer, outer_poisoned, strong, value, key,
                    target, buf, panicking, ran_initial, result, todo, enclosing >>

\* (the unlock tied to the normal return of the body: a guard dropped by
\* unwinding leaves the inner Mutex locked)
DropGuard_keeps_lock_on_unwind(t) ==
    /\ pc[t] \in {"held", "wrote", "unwind"}
    /\ LET e == target[t]
       IN /\ inner_locked' = [inner_locked EXCEPT ![e] = panicking[t]]
          /\ inner_poisoned' = [inner_poisoned EXCEPT ![e] = @ \/ panicking[t]]
    /\ pc' = [pc EXCEPT ![t] = "drop_arc"]
    /\ UNCHANGED << cleanup, names, outer, outer_poisoned, strong, value, key,
                    target, buf, panicking, ran_initial, result, todo,
                    enclosing >>

\* (the fields dropped in the other order: the Arc in `mutex` is given up
\* while the std guard still holds the lock)
DropGuard_drops_arc_first(t) ==
    /\ pc[t] \in {"held", "wrote", "unwind"}
    /\ strong' = ArcDrop(strong, target[t])
    /\ pc' = [pc EXCEPT ![t] = "drop_arc"]
    /\ UNCHANGED << cleanup, names, outer, outer_poisoned, inner_locked,
                    inner_poisoned, value, key, target, buf, panicking,
                    ran_initial, result, todo, enclosing >>

\* self.guard=None: ArcMutexGuard::drop unlocks the inner Mutex; a std
\* guard dropped while its thread panics poisons the Mutex
DropGuard(t) ==
    /\ pc[t] \in {"held", "wrote", "unwind"}
    /\ LET e == target[t]
       IN /\ inner_locked' = [inner_locked EXCEPT ![e] = FALSE]
          /\ inner_poisoned' = [inner_poisoned EXCEPT ![e] = @ \/ panicking[t]]
    /\ pc' = [pc EXCEPT ![t] = "drop_arc"]
    /\ UNCHANGED << cleanup, names, outer, outer_poisoned, strong, value, key,
                    target, buf, panicking, ran_initial, result, todo, enclosing >>

\* ... and then the ArcMutexGuard's field `mutex` is dropped
DropArc(t) ==
    /\ pc[t] = "drop_arc"
    /\ strong' = ArcDrop(strong, target[t])
    /\ pc' = [pc EXCEPT ![t] = "drop_outer"]
    /\ UNCHANGED << cleanup, names, outer, outer_poisoned, inner_locked,
                    inner_poisoned, value, key, target, buf, panicking,
                    ran_initial, result, todo, enclosing >>

\* let mut map=self.owner.names.lock().unwrap();  (Ok)
DropNamesLock(t) ==
    /\ pc[t] = "drop_outer"
    /\ NamesAvailable(t)
    /\ ~outer_poisoned
    /\ outer' = t
    /\ pc' = [pc EXCEPT ![t] = "drop_cleanup"]
    /\ UNCHANGED << cleanup, names, outer_poisoned, strong, inner_locked,
                    inner_poisoned, value, key, target, buf, panicking,
                    ran_initial, result, todo, enclosing >>

\* names is poisoned: unwrap() panics inside drop. While already unwinding
\* this aborts the process, which ends every thread; otherwise the unwinding
\* drops the field `entry`
DropNamesLockPanics(t) ==
    /\ pc[t] = "drop_outer"
    /\ NamesAvailable(t)
    /\ outer_poisoned
    /\ IF panicking[t]
       THEN /\ pc' = [u \in Threads |-> "aborted"]
            /\ UNCHANGED << strong, key, target, ran_initial >>
       ELSE /\ strong' = ArcDrop(strong, target[t])
            /\ target' = [target EXCEPT ![t] = NoEntry]
            /\ key' = [key EXCEPT ![t] = NoKey]
            /\ ran_initial' = [ran_initial EXCEPT ![t] = FALSE]
            /\ pc' = [pc EXCEPT ![t] = "panicked"]
    /\ result' = [result EXCEPT ![t] = "panic"]
    /\ UNCHANGED << cleanup, names, outer, outer_poisoned, inner_locked,
                    inner_poisoned, value, buf, panicking, todo, enclosing >>

\* (the guard of names poisons it whenever it is dropped during a panic, as
\* if it had been taken before the panic began)
DropCleanup_poisons_names(t) ==
    /\ pc[t] = "drop_cleanup"
    /\ LET e == target[t]
           k == key[t]
           r == try_remove_internal(names, strong, inner_locked,
                                    inner_poisoned, e, k)
       IN IF IsAutoCleanup(cleanup)
          THEN /\ names' = RemovedNames(names, k, r)
               /\ strong' = RemovedStrong(names, strong, e, k, r)
          ELSE /\ names' = names
               /\ strong' = ArcDrop(strong, e)
    /\ value' = Destroyed(value, strong', InitialValue)
    /\ outer' = NoThread
    /\ outer_poisoned' = (outer_poisoned \/ panicking[t])
    /\ target' = [target EXCEPT ![t] = NoEntry]
    /\ ran_initial' = [ran_initial EXCEPT ![t] = FALSE]
    /\ pc' = [pc EXCEPT ![t] = IF panicking[t] THEN "panicked" ELSE "idle"]
    /\ panicking' = [panicking EXCEPT ![t] = FALSE]
    /\ key' = [key EXCEPT ![t] = NoKey]
    /\ UNCHANGED << cleanup, inner_locked, inner_poisoned, buf, result, todo, enclosing >>

\* entry.take(); AutoCleanup: try_remove_internal(map, entry); otherwise
\* the entry is dropped; then the outer lock is released
DropCleanup(t) ==
    /\ pc[t] = "drop_cleanup"
    /\ LET e == target[t]
           k == key[t]
           r == try_remove_internal(names, strong, inner_locked,
                                    inner_poisoned, e, k)
       IN IF IsAutoCleanup(cleanup)
          THEN /\ names' = RemovedNames(names, k, r)
               /\ strong' = RemovedStrong(names, strong, e, k, r)
          ELSE /\ names' = names
               /\ strong' = ArcDrop(strong, e)
    /\ value' = Destroyed(value, strong', InitialValue)
    /\ outer' = NoThread
    /\ target' = [target EXCEPT ![t] = NoEntry]
    /\ ran_initial' = [ran_initial EXCEPT ![t] = FALSE]
    /\ pc' = [pc EXCEPT ![t] = IF panicking[t] THEN "panicked" ELSE "idle"]
    /\ panicking' = [panicking EXCEPT ![t] = FALSE]
    /\ key' = [key EXCEPT ![t] = NoKey]
    /\ UNCHANGED << cleanup, outer_poisoned, inner_locked, inner_poisoned,
                    buf, result, todo, enclosing >>

\* ------------------------------------------------ LockSpace::try_remove

\* let mut map=self.names.lock().unwrap();  (Ok)
TryRemoveNamesLock(t, k) ==
    /\ pc[t] = "idle"
    /\ NamesAvailable(t)
    /\ ~outer_poisoned
    /\ todo > 0
    /\ todo' = todo - 1
    /\ result' = [result EXCEPT ![t] = "none"]
    /\ outer' = t
    /\ key' = [key EXCEPT ![t] = k]
    /\ pc' = [pc EXCEPT ![t] = "remove_find"]
    /\ UNCHANGED << cleanup, names, outer_poisoned, strong, inner_locked,
                    inner_poisoned, value, target, buf, panicking,
                    ran_initial, enclosing >>

\* (an absent key reported as removed)
try_remove_absent_is_success(m, cnt, lk, po, k) ==
    IF m[k] = NoEntry THEN "Success"
    ELSE try_remove_internal(m, ArcClone(cnt, m[k]), lk, po, m[k], k)

\* (the entry handed to try_remove_internal without the clone that stands
\* for a lock: the count tested is one short)
try_remove_without_clone(m, cnt, lk, po, k) ==
    IF m[k] = NoEntry THEN "NotFound"
    ELSE try_remove_internal(m, cnt, lk, po, m[k], k)

\* the outcome of try_remove once it holds the outer lock: NotFound for
\* an absent key, else try_remove_internal on a clone of the entry
try_remove(m, cnt, lk, po, k) ==
    IF m[k] = NoEntry THEN "NotFound"
    ELSE try_remove_internal(m, ArcClone(cnt, m[k]), lk, po, m[k], k)

TryRemoveBody(t) ==
    /\ pc[t] = "remove_find"
    /\ LET k == key[t]
           r == try_remove(names, strong, inner_locked, inner_poisoned, k)
       IN /\ result' = [result EXCEPT ![t] = r]
          /\ names' = RemovedNames(names, k, r)
          /\ strong' = IF names[k] = NoEntry THEN strong
                       ELSE RemovedStrong(names, ArcClone(strong, names[k]),
                                          names[k], k, r)
    /\ value' = Destroyed(value, strong', InitialValue)
    /\ outer' = NoThread
    /\ pc' = [pc EXCEPT ![t] = "idle"]
    /\ key' = [key EXCEPT ![t] = NoKey]
    /\ UNCHANGED << cleanup, outer_poisoned, inner_locked, inner_poisoned,
                    target, buf, panicking, ran_initial, todo, enclosing >>

\* names is poisoned: unwrap() panics in lock and in try_remove
NamesLockPanics(t) ==
    /\ pc[t] = "idle"
    /\ NamesAvailable(t)
    /\ outer_poisoned
    /\ todo > 0
    /\ todo' = todo - 1
    /\ pc' = [pc EXCEPT ![t] = "panicked"]
    /\ result' = [result EXCEPT ![t] = "panic"]
    /\ UNCHANGED << cleanup, space_vars, key, target, buf, panicking,
                    ran_initial, enclosing >>

\* ------------------------------------------------------ specification

Next ==
    \E t \in Threads :
    \/ \E k \in Keys : LockNamesLock(t, k)
    \/ LockFind(t)
    \/ LockInsert(t)
    \/ LockInitialPanics(t)
    \/ arc_mutex_lock(t)
    \/ LockRelease(t)
    \/ LockErr(t)
    \/ BodyRead(t)
    \/ BodyWrite(t)
    \/ BodyPanics(t)
    \/ DropGuard(t)
    \/ DropArc(t)
    \/ DropNamesLock(t)
    \/ DropNamesLockPanics(t)
    \/ DropCleanup(t)
    \/ \E k \in Keys : TryRemoveNamesLock(t, k)
    \/ TryRemoveBody(t)
    \/ NamesLockPanics(t)

Spec == Init /\ [][Next]_vars

\* The workload of the crate example and of file_test_with_lock_space_guard
\* on a KeepUnused space: every call is with_lock(key, ||0, f) on one key,
\* f is the read-then-write increment, and nothing panics
TheKey == 1

InitIncrement == Init /\ cleanup = "KeepUnused"

\* with_lock drops the guard when f has returned
DropGuardAfterBody(t) == pc[t] = "wrote" /\ DropGuard(t)

NextIncrement ==
    \E t \in Threads :
    \/ LockNamesLock(t, TheKey)
    \/ LockFind(t)
    \/ LockInsert(t)
    \/ arc_mutex_lock(t)
    \/ LockRelease(t)
    \/ BodyRead(t)
    \/ BodyWrite(t)
    \/ DropGuardAfterBody(t)
    \/ DropArc(t)
    \/ DropNamesLock(t)
    \/ DropCleanup(t)

SpecIncrement == InitIncrement /\ [][NextIncrement]_vars

\* The steps of a thread other than the start of a new call.  Threads are
\* OS threads: one that can take such a step eventually does, and the
\* critical sections of the workload terminate.
Proceed(t) ==
    \/ LockFind(t)
    \/ LockInsert(t)
    \/ arc_mutex_lock(t)
    \/ LockRelease(t)
    \/ LockErr(t)
    \/ BodyRead(t)
    \/ BodyWrite(t)
    \/ BodyPanics(t)
    \/ DropGuard(t)
    \/ DropArc(t)
    \/ DropNamesLock(t)
    \/ DropCleanup(t)

\* The with_lock workload: the threads contend for one key, under either
\* policy: every call is with_lock(key, ||0, f), where f returns at once, or
\* increments the value, or panics
NextWithLock ==
    \E t \in Threads :
    \/ LockNamesLock(t, TheKey)
    \/ LockFind(t)
    \/ LockInsert(t)
    \/ arc_mutex_lock(t)
    \/ LockRelease(t)
    \/ LockErr(t)
    \/ BodyRead(t)
    \/ BodyWrite(t)
    \/ BodyPanics(t)
    \/ DropGuard(t)
    \/ DropArc(t)
    \/ DropNamesLock(t)
    \/ DropCleanup(t)

SpecWithLock ==
    Init /\ [][NextWithLock]_vars /\ \A t \in Threads : WF_vars(Proceed(t))

\* Calls with their wait for the outer lock made visible: a thread first
\* calls lock / with_lock or try_remove, and is then inside names.lock()
\* until the Mutex is handed to it.  No initializer fails, so names is never
\* poisoned; a body may return, increment or panic.  All calls name TheKey,
\* the case in which callers wait for one another.
Call(t, op) ==
    /\ pc[t] = "idle"
    /\ todo > 0
    /\ todo' = todo - 1
    /\ result' = [result EXCEPT ![t] = "none"]
    /\ pc' = [pc EXCEPT ![t] = op]
    /\ UNCHANGED << cleanup, space_vars, key, target, buf, panicking,
                    ran_initial, enclosing >>

\* let mut map=self.names.lock().unwrap();  in lock
CalledLockNamesLock(t, k) ==
    /\ pc[t] = "lock_call"
    /\ NamesAvailable(t)
    /\ ~outer_poisoned
    /\ outer' = t
    /\ key' = [key EXCEPT ![t] = k]
    /\ pc' = [pc EXCEPT ![t] = "lock_find"]
    /\ UNCHANGED << cleanup, names, outer_poisoned, strong, inner_locked,
                    inner_poisoned, value, target, buf, panicking,
                    ran_initial, result, todo, enclosing >>

\* let mut map=self.names.lock().unwrap();  in try_remove
CalledTryRemoveNamesLock(t, k) ==
    /\ pc[t] = "remove_call"
    /\ NamesAvailable(t)
    /\ ~outer_poisoned
    /\ outer' = t
    /\ key' = [key EXCEPT ![t] = k]
    /\ pc' = [pc EXCEPT ![t] = "remove_find"]
    /\ UNCHANGED << cleanup, names, outer_poisoned, strong, inner_locked,
                    inner_poisoned, value, target, buf, panicking,
                    ran_initial, result, todo, enclosing >>

NextProgress ==
    \E t \in Threads :
    \/ Call(t, "lock_call")
    \/ Call(t, "remove_call")
    \/ CalledLockNamesLock(t, TheKey)
    \/ CalledTryRemoveNamesLock(t, TheKey)
    \/ LockFind(t)
    \/ LockInsert(t)
    \/ arc_mutex_lock(t)
    \/ LockRelease(t)
    \/ LockErr(t)
    \/ BodyRead(t)
    \/ BodyWrite(t)
    \/ BodyPanics(t)
    \/ DropGuard(t)
    \/ DropArc(t)
    \/ DropNamesLock(t)
    \/ DropCleanup(t)
    \/ TryRemoveBody(t)

\* Fair scheduling: a started call and a guard drop go on when they can
\* (Proceed), try_remove runs on once it has the outer lock, and a thread
\* waiting in names.lock() gets the Mutex when it stays free
SpecProgress ==
    /\ Init /\ [][NextProgress]_vars
    /\ \A t \in Threads :
          /\ WF_vars(Proceed(t))
          /\ WF_vars(TryRemoveBody(t))
          /\ WF_vars(CalledLockNamesLock(t, TheKey))
          /\ WF_vars(CalledTryRemoveNamesLock(t, TheKey))

\* The try_remove workload on a KeepUnused space: a first lock call creates
\* the entry of TheKey, and the threads then make MaxCalls further calls on
\* that key, lock / with_lock or try_remove, whose waits for the outer lock
\* are visible ("lock_call", "remove_call"); a body may return, increment
\* or panic.
CreatingCall(t) ==
    /\ \A u \in Threads : pc[u] = "idle"
    /\ todo = MaxCalls
    /\ names[TheKey] = NoEntry
    /\ result' = [result EXCEPT ![t] = "none"]
    /\ pc' = [pc EXCEPT ![t] = "lock_call"]
    /\ UNCHANGED << cleanup, space_vars, key, target, buf, panicking,
                    ran_initial, todo, enclosing >>

NextRemove ==
    \E t \in Threads :
    \/ CreatingCall(t)
    \/ Call(t, "lock_call")
    \/ Call(t, "remove_call")
    \/ CalledLockNamesLock(t, TheKey)
    \/ CalledTryRemoveNamesLock(t, TheKey)
    \/ LockFind(t)
    \/ LockInsert(t)
    \/ arc_mutex_lock(t)
    \/ LockRelease(t)
    \/ LockErr(t)
    \/ BodyRead(t)
    \/ BodyWrite(t)
    \/ BodyPanics(t)
    \/ DropGuard(t)
    \/ DropArc(t)
    \/ DropNamesLock(t)
    \/ DropCleanup(t)
    \/ TryRemoveBody(t)

SpecRemove == InitIncrement /\ [][NextRemove]_vars

\* Nested use: lock takes &self and the guard only borrows the space, so the
\* holder of a guard may call lock, with_lock or try_remove again before it
\* drops the guard.  In this workload a thread holds at most one guard around
\* a call, the inner call is on a later key (one global key order), and
\* nothing panics.

\* the critical section calls lock or try_remove on the space: from here the
\* thread is inside that call, where it first waits for the outer lock (a
\* critical section makes one such call; `todo` counts the outermost calls)
NestedCall(t, op) ==
    /\ pc[t] = "held"
    /\ enclosing[t] = NoGuard
    /\ \E k \in Keys : k > key[t]
    /\ enclosing' = [enclosing EXCEPT ![t] = << key[t], target[t] >>]
    /\ key' = [key EXCEPT ![t] = NoKey]
    /\ target' = [target EXCEPT ![t] = NoEntry]
    /\ pc' = [pc EXCEPT ![t] = op]
    /\ UNCHANGED << cleanup, space_vars, buf, panicking, ran_initial, result,
                    todo >>

\* let mut map=self.names.lock().unwrap();  in the nested lock
NestedLockNamesLock(t, k) ==
    /\ pc[t] = "nested_lock"
    /\ k > enclosing[t][1]
    /\ NamesAvailable(t)
    /\ ~outer_poisoned
    /\ result' = [result EXCEPT ![t] = "none"]
    /\ outer' = t
    /\ key' = [key EXCEPT ![t] = k]
    /\ pc' = [pc EXCEPT ![t] = "lock_find"]
    /\ UNCHANGED << cleanup, names, outer_poisoned, strong, inner_locked,
                    inner_poisoned, value, target, buf, panicking,
                    ran_initial, todo, enclosing >>

\* let mut map=self.names.lock().unwrap();  in the nested try_remove
NestedTryRemoveNamesLock(t, k) ==
    /\ pc[t] = "nested_remove"
    /\ k > enclosing[t][1]
    /\ NamesAvailable(t)
    /\ ~outer_poisoned
    /\ result' = [result EXCEPT ![t] = "none"]
    /\ outer' = t
    /\ key' = [key EXCEPT ![t] = k]
    /\ pc' = [pc EXCEPT ![t] = "remove_find"]
    /\ UNCHANGED << cleanup, names, outer_poisoned, strong, inner_locked,
                    inner_poisoned, value, target, buf, panicking,
                    ran_initial, todo, enclosing >>

\* the nested call has returned (and its guard, if any, was dropped): the
\* critical section of the enclosing guard goes on
NestedReturn(t) ==
    /\ pc[t] = "idle"
    /\ enclosing[t] # NoGuard
    /\ key' = [key EXCEPT ![t] = enclosing[t][1]]
    /\ target' = [target EXCEPT ![t] = enclosing[t][2]]
    /\ enclosing' = [enclosing EXCEPT ![t] = NoGuard]
    /\ pc' = [pc EXCEPT ![t] = "wrote"]
    /\ UNCHANGED << cleanup, space_vars, buf, panicking, ran_initial, result,
                    todo >>

\* a call made by a thread that holds no guard
OutermostLock(t, k) == enclosing[t] = NoGuard /\ LockNamesLock(t, k)
OutermostTryRemove(t, k) == enclosing[t] = NoGuard /\ TryRemoveNamesLock(t, k)

NextNested ==
    \E t \in Threads :
    \/ \E k \in Keys : OutermostLock(t, k)
    \/ LockFind(t)
    \/ LockInsert(t)
    \/ arc_mutex_lock(t)
    \/ LockRelease(t)
    \/ NestedCall(t, "nested_lock")
    \/ NestedCall(t, "nested_remove")
    \/ \E k \in Keys : NestedLockNamesLock(t, k)
    \/ \E k \in Keys : NestedTryRemoveNamesLock(t, k)
    \/ NestedReturn(t)
    \/ BodyRead(t)
    \/ BodyWrite(t)
    \/ DropGuard(t)
    \/ DropArc(t)
    \/ DropNamesLock(t)
    \/ DropCleanup(t)
    \/ \E k \in Keys : OutermostTryRemove(t, k)
    \/ TryRemoveBody(t)

SpecNested == Init /\ [][NextNested]_vars

\* ------------------------------------------------------------ properties

\* the thread holds a reference to an entry (`target`, or a guard's `entry`)
Attached(t) == target[t] # NoEntry

\* the thread owns a guard: from the Ok of arc_mutex_lock until
\* self.guard=None in LockSpaceGuard::drop
GuardLive(t) == pc[t] \in {"lock_guarded", "held", "body", "wrote", "unwind"}

LiveGuards(k) == { t \in Threads : GuardLive(t) /\ key[t] = k }

\* C1: mutual exclusion per key: at most one guard for a key is live at any
\* time, under either cleanup policy and with try_remove running concurrently
MutualExclusion == \A k \in Keys : Cardinality(LiveGuards(k)) <= 1

\* a guard is live while another lock call on the same key waits for the
\* inner lock
MutualExclusionWitness ==
    \E t, u \in Threads :
        /\ t # u
        /\ pc[t] \in {"held", "body", "wrote"}
        /\ pc[u] = "lock_inner"
        /\ key[u] = key[t]

\* C2: the initializer runs once per creation: threads that are in a call on
\* the same key at the same time all refer to one entry, and at most one of
\* them invoked its initializer
InitializerOnce ==
    \A t, u \in Threads :
        (t # u /\ Attached(t) /\ Attached(u) /\ key[t] = key[u])
            => /\ target[t] = target[u]
               /\ ~(ran_initial[t] /\ ran_initial[u])

\* two lock calls raced on an absent key: one created the entry, the other
\* attached to the same entry without running its initializer
InitializerOnceWitness ==
    \E t, u \in Threads :
        /\ t # u
        /\ GuardLive(t) /\ ran_initial[t]
        /\ Attached(u) /\ ~ran_initial[u]
        /\ key[t] = key[u] /\ target[t] = target[u]

\* C3: every reference a thread holds (a live guard, a lock call past its
\* clone, a guard in its drop) is to the entry the map stores under its key,
\* and that entry is allocated: nothing in use is ever removed
RaceSafety ==
    \A t \in Threads :
        Attached(t) => /\ names[key[t]] = target[t]
                       /\ strong[target[t]] >= 2

\* a removal was refused while another thread was still using the entry
RaceSafetyWitness ==
    \E t, u \in Threads :
        /\ t # u
        /\ result[t] = "WouldBlock"
        /\ pc[u] \in {"drop_arc", "drop_outer"}
        /\ names[key[u]] = target[u]

\* every call of the workload has returned
AllReturned == todo = 0 /\ \A t \in Threads : pc[t] = "idle"

\* C4: no lost updates: on a KeepUnused space, once all MaxCalls calls of
\* with_lock(key, ||0, increment) have returned, the protected value equals
\* the number of calls
NoLostUpdates ==
    AllReturned => /\ names[TheKey] # NoEntry
                   /\ value[names[TheKey]] = MaxCalls

\* all calls have returned and their increments are in the value
NoLostUpdatesWitness ==
    /\ AllReturned
    /\ names[TheKey] # NoEntry
    /\ value[names[TheKey]] = MaxCalls
    /\ \A t \in Threads : result[t] = "guard"

\* no other thread holds a reference to the entry of key k
OnlyUser(t, k) == \A u \in Threads : u # t => ~(Attached(u) /\ key[u] = k)

\* C5: AutoCleanup purges unused entries: when nothing has failed (a failed
\* thread stays "panicked"), every guard is dropped and no call is in
\* flight, no key is in the map; and a lock call that is alone on a key whose
\* lock is not poisoned has run its initializer and sees the initial value
AutoCleanupPurges ==
    cleanup = "AutoCleanup" =>
        /\ (\A t \in Threads : pc[t] = "idle") => \A k \in Keys : names[k] = NoEntry
        /\ \A t \in Threads :
              (pc[t] = "lock_inner" /\ OnlyUser(t, key[t])
                 /\ ~inner_poisoned[target[t]])
                  => ran_initial[t] /\ value[target[t]] = InitialValue

\* a guard was obtained and dropped, and a later lock call on an
\* AutoCleanup space has found the key absent and created a fresh entry
AutoCleanupPurgesWitness ==
    /\ cleanup = "AutoCleanup"
    /\ todo = 0
    /\ \E t, u \in Threads :
          /\ t # u
          /\ pc[t] = "idle" /\ result[t] = "guard"
          /\ pc[u] = "held" /\ ran_initial[u]
          /\ value[target[u]] = InitialValue

\* thread t's try_remove(k) returns in this step
TryRemoveReturns(t, k) ==
    pc[t] = "remove_find" /\ key[t] = k /\ pc'[t] = "idle"

\* the entries of the map with their count, lock state and value
Entries == << names, strong, inner_locked, inner_poisoned, value >>

\* C6: KeepUnused retention: on a KeepUnused space a key leaves the map only
\* in a try_remove on it that returns Success (never in a guard drop), and
\* the value of its entry changes only by the write of the guard's holder
KeepUnusedRetention ==
    [][ cleanup = "KeepUnused" =>
          \A k \in Keys :
             names[k] # NoEntry =>
                \/ /\ names'[k] = names[k]
                   /\ \/ value'[names[k]] = value[names[k]]
                      \/ \E t \in Threads :
                            pc[t] = "body" /\ target[t] = names[k]
                \/ \E t \in Threads :
                      TryRemoveReturns(t, k) /\ result'[t] = "Success" ]_vars

\* a later lock on a key that was locked, written and released before: the
\* initializer did not run and the guard sees the value written
KeepUnusedRetentionWitness ==
    /\ cleanup = "KeepUnused"
    /\ \E t \in Threads :
          /\ pc[t] = "held"
          /\ ~ran_initial[t]
          /\ OnlyUser(t, key[t])
          /\ value[target[t]] = 1

\* thread u is in a lock call on key k that has not returned: it waits for
\* the outer lock, or is between names.lock() and the return
LockInFlight(u, k) ==
    \/ pc[u] = "lock_call" /\ k = TheKey
    \/ /\ pc[u] \in {"lock_find", "lock_initial", "lock_inner", "lock_guarded",
                     "lock_poisoned", "lock_err"}
       /\ key[u] = k

\* a lock call that finds its key absent invokes the initializer: it
\* inserts a fresh entry with the initial value and locks that entry
LockOnAbsentInitializes ==
    /\ [][ \A t \in Threads :
             (pc[t] = "lock_find" /\ pc'[t] # pc[t])
                => (pc'[t] = "lock_initial" <=> names[key[t]] = NoEntry) ]_vars
    /\ [][ \A k \in Keys :
             (names[k] = NoEntry /\ names'[k] # NoEntry)
                => \E t \in Threads :
                      /\ pc[t] = "lock_initial" /\ key[t] = k
                      /\ ran_initial'[t]
                      /\ target'[t] = names'[k]
                      /\ value'[names'[k]] = InitialValue
                      /\ ~inner_locked'[names'[k]]
                      /\ ~inner_poisoned'[names'[k]] ]_vars

\* C7 as claimed: on a KeepUnused space, for a present key whose lock is not
\* poisoned, with every guard dropped and no lock call for it in flight,
\* try_remove returns Success, the key is absent afterwards and the next
\* lock on it invokes its initializer; if instead an acquisition of the key
\* is in progress (a lock call on it has not returned), it returns WouldBlock
TryRemoveUnusedOrInProgress ==
    /\ [][ \A t \in Threads : \A k \in Keys :
          ( /\ TryRemoveReturns(t, k)
            /\ cleanup = "KeepUnused"
            /\ names[k] # NoEntry
            /\ ~inner_poisoned[names[k]]
            /\ OnlyUser(t, k)
            /\ \A u \in Threads \ {t} : ~LockInFlight(u, k) )
              => result'[t] = "Success" /\ names'[k] = NoEntry ]_vars
    /\ LockOnAbsentInitializes
    /\ [][ \A t \in Threads : \A k \in Keys :
          ( /\ TryRemoveReturns(t, k)
            /\ cleanup = "KeepUnused"
            /\ names[k] # NoEntry
            /\ ~inner_poisoned[names[k]]
            /\ \E u \in Threads \ {t} : LockInFlight(u, k) )
              => result'[t] = "WouldBlock" ]_vars

\* C7: try_remove succeeds on an unused entry: on a KeepUnused space, for a
\* present key whose lock is not poisoned and whose entry no other thread
\* refers to (every guard dropped, no lock call past the outer lock),
\* try_remove returns Success, the key is absent afterwards, and the next
\* lock on it to take the outer lock invokes its initializer, also when that
\* call was waiting for the outer lock while try_remove ran; if instead
\* another thread holds a reference to the entry, it returns WouldBlock
TryRemoveUnused ==
    /\ [][ \A t \in Threads : \A k \in Keys :
          ( /\ TryRemoveReturns(t, k)
            /\ cleanup = "KeepUnused"
            /\ names[k] # NoEntry
            /\ ~inner_poisoned[names[k]]
            /\ OnlyUser(t, k) )
              => result'[t] = "Success" /\ names'[k] = NoEntry ]_vars
    /\ LockOnAbsentInitializes
    /\ [][ \A t \in Threads : \A k \in Keys :
          ( /\ TryRemoveReturns(t, k)
            /\ cleanup = "KeepUnused"
            /\ names[k] # NoEntry
            /\ ~OnlyUser(t, k) )
              => result'[t] = "WouldBlock" /\ names'[k] = names[k] ]_vars

\* the entry was created, incremented and released; try_remove has returned
\* Success; the lock call that followed has run its initializer and holds a
\* guard on a fresh entry with the initial value
TryRemoveUnusedWitness ==
    /\ cleanup = "KeepUnused"
    /\ todo = 0
    /\ \E t, u \in Threads :
          /\ t # u
          /\ pc[u] = "idle" /\ result[u] = "Success"
          /\ pc[t] = "held" /\ ran_initial[t]
          /\ names[TheKey] = target[t]
          /\ value[target[t]] = InitialValue

\* C8: try_remove reports WouldBlock for an entry in use: while another
\* thread holds a reference to the key's entry (a live guard, an unfinished
\* lock call or guard drop), it returns WouldBlock and leaves the map and
\* every entry as they were
TryRemoveInUse ==
    [][ \A t \in Threads : \A k \in Keys :
          ( /\ TryRemoveReturns(t, k)
            /\ names[k] # NoEntry
            /\ \E u \in Threads : u # t /\ target[u] = names[k] )
              => result'[t] = "WouldBlock" /\ Entries' = Entries ]_vars

\* try_remove has returned WouldBlock while another thread is in the drop of
\* its guard for that entry, the inner lock already released
TryRemoveInUseWitness ==
    \E t, u \in Threads :
        /\ t # u
        /\ result[t] = "WouldBlock" /\ pc[t] = "idle"
        /\ pc[u] = "drop_outer"
        /\ ~inner_locked[target[u]]
        /\ todo = 0

\* C9: try_remove on an absent key returns NotFound and changes nothing
TryRemoveAbsent ==
    [][ \A t \in Threads : \A k \in Keys :
          (TryRemoveReturns(t, k) /\ names[k] = NoEntry)
              => result'[t] = "NotFound" /\ Entries' = Entries ]_vars

\* try_remove has returned NotFound while another key is in the map
TryRemoveAbsentWitness ==
    \E t \in Threads :
        /\ result[t] = "NotFound"
        /\ \E k \in Keys : names[k] # NoEntry

\* C10 as claimed: try_remove on a key whose inner lock is poisoned returns
\* PoisonError and leaves the key in the map
PoisonedTryRemoveIsPoisonError ==
    [][ \A t \in Threads : \A k \in Keys :
          ( /\ TryRemoveReturns(t, k)
            /\ names[k] # NoEntry
            /\ inner_poisoned[names[k]] )
              => result'[t] = "PoisonError" /\ names'[k] = names[k] ]_vars

\* C10, amended: a poisoned entry is never removed: try_remove on a key whose
\* inner lock is poisoned returns PoisonError when no other thread holds a
\* reference to the entry and WouldBlock when one does, and no step (of
\* try_remove or of a guard drop, under either policy) takes the key out of
\* the map or clears the poison
PoisonedNeverRemoved ==
    /\ [][ \A t \in Threads : \A k \in Keys :
             ( /\ TryRemoveReturns(t, k)
               /\ names[k] # NoEntry
               /\ inner_poisoned[names[k]] )
                 => result'[t] = IF OnlyUser(t, k) THEN "PoisonError"
                                  ELSE "WouldBlock" ]_vars
    /\ [][ \A k \in Keys :
             (names[k] # NoEntry /\ inner_poisoned[names[k]])
                 => names'[k] = names[k] /\ inner_poisoned'[names[k]] ]_vars

\* try_remove has returned PoisonError and, under AutoCleanup, the guard drop
\* of the failed holder has finished: the poisoned key is still in the map
PoisonedNeverRemovedWitness ==
    /\ cleanup = "AutoCleanup"
    /\ \E t, u \in Threads : \E k \in Keys :
          /\ result[t] = "PoisonError" /\ pc[t] = "idle"
          /\ pc[u] = "panicked"
          /\ names[k] # NoEntry /\ inner_poisoned[names[k]]

\* the key is in the map and the Mutex of its entry is poisoned
KeyPoisoned(k) == names[k] # NoEntry /\ inner_poisoned[names[k]]

\* thread t's lock(k) / with_lock(k) call hands its result to the caller in
\* this step: Ok(guard), or Err(PoisonError)
LockReturns(t, k) ==
    /\ key[t] = k
    /\ \/ pc[t] = "lock_guarded" /\ pc'[t] = "held"
       \/ pc[t] = "lock_err" /\ pc'[t] = "idle"

\* C11: poison propagation: once a critical section has failed while it held
\* the guard of key k, no thread has a guard over the poisoned value (so no
\* body runs on it), every lock / with_lock on k that returns a result
\* returns Poisoned, and no step clears the poison, under either policy
PoisonPropagation ==
    /\ [](\A t \in Threads : GuardLive(t) => ~inner_poisoned[target[t]])
    /\ [][ \A t \in Threads : \A k \in Keys :
             (LockReturns(t, k) /\ KeyPoisoned(k))
                 => result'[t] = "Poisoned" ]_vars
    /\ [][ \A e \in Slots : inner_poisoned[e] => inner_poisoned'[e] ]_vars

\* a critical section has failed and its guard drop has finished, and a lock
\* call on the same key by another thread has returned Poisoned
PoisonPropagationWitness ==
    \E t, u \in Threads : \E k \in Keys :
        /\ t # u
        /\ pc[u] = "panicked" /\ ~outer_poisoned
        /\ KeyPoisoned(k)
        /\ pc[t] = "idle" /\ result[t] = "Poisoned"

\* C12: poison is confined to one key: a failing critical section and the
\* guard drop that runs during its unwinding poison the inner lock only; the
\* outer lock becomes poisoned in no step but a failing initializer, and
\* lock, with_lock, try_remove and the guard drop panic only when the outer
\* lock is poisoned: otherwise they return an explicit outcome, on every key
PoisonConfined ==
    /\ [][ (outer_poisoned' /\ ~outer_poisoned)
             => \E t \in Threads :
                   pc[t] = "lock_initial" /\ pc'[t] = "panicked" ]_vars
    /\ [][ \A t \in Threads :
             (pc[t] \in {"idle", "drop_outer"}
                 /\ pc'[t] \in {"panicked", "aborted"})
               => outer_poisoned ]_vars
    /\ [][ \A t \in Threads :
             (pc[t] \in {"lock_guarded", "lock_err", "remove_find"}
                 /\ pc'[t] \in {"held", "idle"})
               => result'[t] \in {"guard", "Poisoned", "Success", "NotFound",
                                  "WouldBlock", "PoisonError"} ]_vars

\* the critical section on key k has failed and its guard drop has finished:
\* k is poisoned, the outer lock is not, and another thread has obtained a
\* guard on another key since
PoisonConfinedWitness ==
    \E t, u \in Threads : \E k \in Keys :
        /\ t # u
        /\ pc[u] = "panicked"
        /\ KeyPoisoned(k)
        /\ ~outer_poisoned
        /\ pc[t] = "held" /\ key[t] # k /\ todo = 0

\* C13 as claimed: a poisoned key is recovered by try_remove and a lock that
\* recreates it; the removal this needs: try_remove on a poisoned key whose
\* entry no other thread refers to takes the key out of the map
PoisonedKeyRecoverable ==
    [][ \A t \in Threads : \A k \in Keys :
          (TryRemoveReturns(t, k) /\ KeyPoisoned(k) /\ OnlyUser(t, k))
              => names'[k] = NoEntry ]_vars

\* C13, amended: a poisoned key is not recoverable through the public
\* operations: whatever lock, with_lock and try_remove calls follow, under
\* either policy, a poisoned key stays a poisoned key, and no lock call on it
\* runs its initializer or has a guard
PoisonedNeverRecovered ==
    /\ [][ \A k \in Keys : KeyPoisoned(k) => KeyPoisoned(k)' ]_vars
    /\ [](\A t \in Threads :
             pc[t] \in {"lock_initial", "lock_guarded", "held", "body",
                        "wrote", "unwind"}
                 => ~KeyPoisoned(key[t]))

\* on a KeepUnused space the failed holder has finished unwinding, and a
\* try_remove on the poisoned key, which nobody refers to, has returned
\* PoisonError: the key is still in the map and still poisoned
PoisonedNeverRecoveredWitness ==
    /\ cleanup = "KeepUnused"
    /\ todo = 0
    /\ \E t, u \in Threads : \E k \in Keys :
          /\ t # u
          /\ pc[u] = "panicked" /\ target[u] = NoEntry
          /\ pc[t] = "idle" /\ result[t] = "PoisonError"
          /\ KeyPoisoned(k) /\ strong[names[k]] = 1

\* the steps a thread takes while it holds the outer lock, in lock, in the
\* guard drop and in try_remove
HoldsNamesStep(t) ==
    \/ LockFind(t)
    \/ LockInsert(t)
    \/ LockInitialPanics(t)
    \/ arc_mutex_lock(t)
    \/ LockRelease(t)
    \/ DropCleanup(t)
    \/ TryRemoveBody(t)

\* C14 as claimed: try_remove waits for the outer lock only and never, even
\* indirectly, for a per-entry lock: whoever holds the outer lock can go on
\* without another thread dropping a guard
TryRemoveWaitsForNamesOnly ==
    \A t \in Threads : outer = t => ENABLED HoldsNamesStep(t)

\* the thread will take no further step: it has failed, or the process was
\* aborted, or it has returned from its last call
Finished(t) ==
    \/ pc[t] \in {"panicked", "aborted"}
    \/ pc[t] = "idle" /\ todo = 0

\* the thread waits in Mutex::lock of an inner Mutex that is locked
BlockedOnInner(t) == pc[t] = "lock_inner" /\ inner_locked[target[t]]

\* C15: deadlock freedom for non-nested use: threads that lock any key, use
\* and drop the guard, or call try_remove, and call nothing while they hold
\* a guard: in every reachable state with an unfinished thread some thread
\* can take a step, under either policy
DeadlockFree == (\E t \in Threads : ~Finished(t)) => ENABLED Next

\* a lock call waits for the inner lock of a key while it holds the outer
\* lock: only the holder of the guard can take a step, and its next step is
\* the drop of the guard
DeadlockFreeWitness ==
    \E t, u \in Threads :
        /\ BlockedOnInner(u) /\ outer = u
        /\ pc[t] = "wrote" /\ target[t] = target[u]
        /\ \A v \in Threads : v \in {t, u} \/ Finished(v) \/ pc[v] = "idle"

\* C16 as claimed: deadlock freedom with nested use: threads may call lock or
\* try_remove on a later key while they hold a guard, all in one key order;
\* in every reachable state in which some thread has not finished (it is in
\* a call, or still holds a guard), some thread can take a step
NestedDeadlockFree ==
    (\E t \in Threads : ~Finished(t) \/ enclosing[t] # NoGuard)
        => ENABLED NextNested

\* some thread owns a guard on the Mutex in slot e
HoldsInner(e) == \E u \in Threads : GuardLive(u) /\ target[u] = e

\* the number of Arcs to its entry that a thread owns at each position:
\* `target` and the clone given to arc_mutex_lock, until the latter is
\* dropped (by the failed arc_mutex_lock, or by self.guard=None)
RefsHeld(t) ==
    IF pc[t] \in {"lock_inner", "lock_guarded", "held", "body", "wrote",
                  "unwind", "drop_arc"} THEN 2
    ELSE IF pc[t] \in {"lock_poisoned", "lock_err", "drop_outer",
                       "drop_cleanup"} THEN 1
    ELSE 0

\* the map stores the entry in slot e
InMap(e) == \E k \in Keys : names[k] = e

\* the Arcs to slot e that the map and the threads own
References(e) ==
    (IF InMap(e) THEN 1 ELSE 0)
    + Cardinality({ t \in Threads : target[t] = e /\ RefsHeld(t) >= 1 })
    + Cardinality({ t \in Threads : target[t] = e /\ RefsHeld(t) = 2 })

\* C17: with_lock releases on every exit path: a thread that has returned
\* from with_lock, or whose body has failed and has unwound, holds neither
\* the outer lock nor an inner lock nor a reference to an entry (every locked
\* Mutex has a live guard, every strong count is made up of the map's and
\* the running calls' references), and a thread waiting for the inner lock
\* of a key obtains the guard or Poisoned
WithLockReleases ==
    /\ [](\A t \in Threads :
             pc[t] \in {"idle", "panicked"}
                 => target[t] = NoEntry /\ outer # t /\ RefsHeld(t) = 0)
    /\ [](\A e \in Slots :
             /\ inner_locked[e] => HoldsInner(e)
             /\ strong[e] = References(e))
    /\ \A u \in Threads :
          (pc[u] = "lock_inner")
              ~> (pc[u] \in {"lock_guarded", "lock_poisoned"})

\* the body of a with_lock has failed and its guard is being dropped by the
\* unwinding; a thread that waited for the same key has got Poisoned
WithLockReleasesWitness ==
    \E t, u \in Threads :
        /\ t # u
        /\ panicking[t] /\ pc[t] \in {"drop_arc", "drop_outer"}
        /\ pc[u] = "lock_poisoned" /\ target[u] = target[t]

\* C18 as claimed: lock does not hold the outer lock while it waits for a
\* key: no thread is blocked on an inner lock while it holds the outer lock
LockWaitsWithoutNames ==
    \A t \in Threads : BlockedOnInner(t) => outer # t

\* C19: lock ordering: a thread is at a place where it locks or try_locks an
\* inner Mutex (arc_mutex_lock in lock, try_remove_internal in try_remove and
\* in the guard drop) only while it holds the outer lock, an inner Mutex
\* becomes locked only in a step of the holder of the outer lock, and a
\* thread that is in the drop of its guard and asks for or holds the outer
\* lock has released the inner lock before
LockOrdering ==
    /\ [](\A t \in Threads :
             pc[t] \in {"lock_inner", "remove_find", "drop_cleanup"}
                 => outer = t)
    /\ [][ \A e \in Slots :
             (inner_locked'[e] /\ ~inner_locked[e])
                 => \E t \in Threads :
                       outer = t /\ pc[t] = "lock_inner" /\ target[t] = e ]_vars
    /\ [](\A t \in Threads :
             (pc[t] \in {"drop_outer", "drop_cleanup"}
                 /\ inner_locked[target[t]])
               => \E u \in Threads :
                     u # t /\ GuardLive(u) /\ target[u] = target[t])

\* a thread in the drop of its guard waits for the outer lock, the inner
\* lock released; the holder of the outer lock has just locked that Mutex
LockOrderingWitness ==
    \E t, u \in Threads :
        /\ pc[t] = "drop_outer"
        /\ pc[u] = "lock_guarded" /\ outer = u
        /\ target[u] = target[t]

\* C20 as claimed: whenever the outer lock is held, the strong count of each
\* entry of the map is 1 plus the number of guards and acquisition attempts
\* on it, one reference each
RefcountIsOnePlusGuards ==
    outer # NoThread =>
        \A e \in Slots :
            InMap(e) =>
                strong[e] = 1 + Cardinality({ t \in Threads : target[t] = e })

\* C21: guard release order: the inner Mutex is unlocked (self.guard=None)
\* before the guard gives up its Arcs: a locked Mutex always belongs to a
\* live guard, whose two references and the map's are all still counted, so
\* the value is never destroyed while its lock is held (as long as the
\* process has not been aborted)
GuardReleaseOrder ==
    ~Aborted =>
        \A e \in Slots :
            inner_locked[e] =>
                /\ \E t \in Threads : GuardLive(t) /\ target[t] = e
                /\ strong[e] >= 3

\* a guard is half dropped: its Mutex is unlocked already, and both of its
\* references are still held
GuardReleaseOrderWitness ==
    \E t \in Threads :
        /\ pc[t] = "drop_arc"
        /\ ~inner_locked[target[t]]
        /\ strong[target[t]] = 3

\* C22: initializer failure is not confined to one key: a failing initial()
\* inserts nothing but poisons the outer lock, the poison stays, and from
\* then on every lock, with_lock and try_remove that is started and every
\* guard drop that reaches names.lock() panics (a drop that runs during an
\* unwinding aborts the process), whatever the key
InitializerFailurePoisons ==
    /\ [][ \A t \in Threads :
             (pc[t] = "lock_initial" /\ pc'[t] = "panicked")
                 => /\ outer_poisoned'
                    /\ names' = names /\ strong' = strong ]_vars
    /\ [][ outer_poisoned => outer_poisoned' ]_vars
    /\ [][ outer_poisoned =>
             \A t \in Threads :
                (pc[t] \in {"idle", "drop_outer"} /\ pc'[t] # pc[t])
                    => \/ pc'[t] = "panicked" /\ result'[t] = "panic"
                       \/ Aborted' ]_vars

\* an initializer has failed on a space that holds no key, and a call by
\* another thread has panicked on the poisoned outer lock
InitializerFailurePoisonsWitness ==
    /\ outer_poisoned
    /\ \A k \in Keys : names[k] = NoEntry
    /\ todo = 0
    /\ \A t \in Threads : pc[t] = "panicked" /\ result[t] = "panic"

\* C23: progress of lock: with fair scheduling, every guard dropped in the
\* end, no call made while a guard is held and no failing initializer, every
\* lock / with_lock call comes to return a guard or Poisoned and every
\* try_remove call comes to return its outcome
LockProgress ==
    \A t \in Threads :
        /\ (pc[t] = "lock_call")
              ~> \/ pc[t] = "held" /\ result[t] = "guard"
                 \/ pc[t] = "idle" /\ result[t] = "Poisoned"
        /\ (pc[t] = "remove_call")
              ~> /\ pc[t] = "idle"
                 /\ result[t] \in {"Success", "NotFound", "WouldBlock",
                                    "PoisonError"}

\* a lock call waits for the outer lock, which another lock call holds
\* while it waits for the inner lock of a key whose guard a third party, or
\* here the first of two threads, has yet to drop
LockProgressWitness ==
    \E t, u \in Threads :
        /\ pc[t] = "lock_call"
        /\ outer = u /\ pc[u] \in {"lock_find", "lock_inner", "remove_find"}

\* ------------------------------------------- OwnedMutexGuard (Arc owner)
\* src/src/ownedmutexguard.rs.  One Arc<Mutex<V>> is shared by the threads,
\* each owning one handle to it (`target`).  owned_lock(self) moves the
\* handle into the guard; dropping the guard drops the handle, into_inner
\* gives it back.  The LockSpace is not involved.

TheMutex == 1

OwnedUnused == << cleanup, names, outer, outer_poisoned, key, buf,
                  ran_initial, enclosing >>

InitOwned ==
    /\ cleanup = "KeepUnused"
    /\ names = [k \in Keys |-> NoEntry]
    /\ outer = NoThread
    /\ outer_poisoned = FALSE
    /\ strong = [e \in Slots |-> IF e = TheMutex THEN NThreads ELSE 0]
    /\ inner_locked = [e \in Slots |-> FALSE]
    /\ inner_poisoned = [e \in Slots |-> FALSE]
    /\ value = [e \in Slots |-> InitialValue]
    /\ pc = [t \in Threads |-> "idle"]
    /\ key = [t \in Threads |-> NoKey]
    /\ target = [t \in Threads |-> TheMutex]
    /\ buf = [t \in Threads |-> 0]
    /\ panicking = [t \in Threads |-> FALSE]
    /\ ran_initial = [t \in Threads |-> FALSE]
    /\ result = [t \in Threads |-> "none"]
    /\ todo = MaxCalls
    /\ enclosing = [t \in Threads |-> NoGuard]

\* a thread that still owns its handle calls owned_lock(self)
OwnedLockCall(t) ==
    /\ pc[t] = "idle"
    /\ target[t] # NoEntry
    /\ todo > 0
    /\ todo' = todo - 1
    /\ result' = [result EXCEPT ![t] = "none"]
    /\ pc' = [pc EXCEPT ![t] = "owned_lock"]
    /\ UNCHANGED << OwnedUnused, strong, inner_locked, inner_poisoned, value,
                    target, panicking >>

\* let guard=try!(...lock().into_result());  (Ok)
\* return Ok(OwnedMutexGuard{owned_mutex:Some(self),guard:Some(guard)});
owned_lock(t) ==
    /\ pc[t] = "owned_lock"
    /\ InnerAvailable(t)
    /\ ~inner_poisoned[target[t]]
    /\ inner_locked' = [inner_locked EXCEPT ![target[t]] = TRUE]
    /\ result' = [result EXCEPT ![t] = "guard"]
    /\ pc' = [pc EXCEPT ![t] = "owned_held"]
    /\ UNCHANGED << OwnedUnused, strong, inner_poisoned, value, target,
                    panicking, todo >>

\* try! on a poisoned Mutex: the std guard inside the error is dropped, Err
\* is returned and `self`, the handle, is dropped with the call
OwnedLockPoisoned(t) ==
    /\ pc[t] = "owned_lock"
    /\ InnerAvailable(t)
    /\ inner_poisoned[target[t]]
    /\ LET cnt == ArcDrop(strong, target[t])
       IN /\ strong' = cnt
          /\ inner_poisoned' = Destroyed(inner_poisoned, cnt, FALSE)
          /\ value' = Destroyed(value, cnt, InitialValue)
    /\ target' = [target EXCEPT ![t] = NoEntry]
    /\ result' = [result EXCEPT ![t] = "Poisoned"]
    /\ pc' = [pc EXCEPT ![t] = "idle"]
    /\ UNCHANGED << OwnedUnused, inner_locked, panicking, todo >>

\* DerefMut for OwnedMutexGuard: the holder changes the value
OwnedDerefMut(t) ==
    /\ pc[t] = "owned_held"
    /\ value' = [value EXCEPT ![target[t]] = @ + 1]
    /\ pc' = [pc EXCEPT ![t] = "owned_wrote"]
    /\ UNCHANGED << OwnedUnused, strong, inner_locked, inner_poisoned, target,
                    panicking, result, todo >>

\* the holder panics while the guard is live
OwnedPanics(t) ==
    /\ pc[t] = "owned_held"
    /\ panicking' = [panicking EXCEPT ![t] = TRUE]
    /\ result' = [result EXCEPT ![t] = "panic"]
    /\ pc' = [pc EXCEPT ![t] = "owned_unwind"]
    /\ UNCHANGED << OwnedUnused, strong, inner_locked, inner_poisoned, value,
                    target, todo >>

\* Drop for OwnedMutexGuard:  self.guard=None;  the std guard unlocks, and
\* poisons when dropped by an unwinding thread
OwnedDropGuard(t) ==
    /\ pc[t] \in {"owned_held", "owned_wrote", "owned_unwind"}
    /\ inner_locked' = [inner_locked EXCEPT ![target[t]] = FALSE]
    /\ inner_poisoned' = [inner_poisoned EXCEPT ![target[t]] = @ \/ panicking[t]]
    /\ pc' = [pc EXCEPT ![t] = "owned_drop_owner"]
    /\ UNCHANGED << OwnedUnused, strong, value, target, panicking, result,
                    todo >>

\* ... and then the field owned_mutex, Some(handle), is dropped
OwnedDropOwner(t) ==
    /\ pc[t] = "owned_drop_owner"
    /\ LET cnt == ArcDrop(strong, target[t])
       IN /\ strong' = cnt
          /\ inner_poisoned' = Destroyed(inner_poisoned, cnt, FALSE)
          /\ value' = Destroyed(value, cnt, InitialValue)
    /\ target' = [target EXCEPT ![t] = NoEntry]
    /\ IF panicking[t]
       THEN /\ pc' = [pc EXCEPT ![t] = "panicked"]
            /\ UNCHANGED result
       ELSE /\ pc' = [pc EXCEPT ![t] = "idle"]
            /\ result' = [result EXCEPT ![t] = "dropped"]
    /\ UNCHANGED << OwnedUnused, inner_locked, panicking, todo >>

\* into_inner:  self.guard=None;
IntoInnerGuard(t) ==
    /\ pc[t] \in {"owned_held", "owned_wrote"}
    /\ inner_locked' = [inner_locked EXCEPT ![target[t]] = FALSE]
    /\ inner_poisoned' = [inner_poisoned EXCEPT ![target[t]] = @ \/ panicking[t]]
    /\ pc' = [pc EXCEPT ![t] = "into_inner"]
    /\ UNCHANGED << OwnedUnused, strong, value, target, panicking, result,
                    todo >>

\* (the owner dropped with the guard instead of being returned)
into_inner_drops_owner(t) ==
    /\ pc[t] = "into_inner"
    /\ strong' = ArcDrop(strong, target[t])
    /\ target' = [target EXCEPT ![t] = NoEntry]
    /\ result' = [result EXCEPT ![t] = "owner"]
    /\ pc' = [pc EXCEPT ![t] = "idle"]
    /\ UNCHANGED << OwnedUnused, inner_locked, inner_poisoned, value,
                    panicking, todo >>

\* into_inner:  self.owned_mutex.take().unwrap()  is returned; the drop of
\* `self` that follows finds both fields None
into_inner(t) ==
    /\ pc[t] = "into_inner"
    /\ result' = [result EXCEPT ![t] = "owner"]
    /\ pc' = [pc EXCEPT ![t] = "idle"]
    /\ UNCHANGED << OwnedUnused, strong, inner_locked, inner_poisoned, value,
                    target, panicking, todo >>

NextOwned ==
    \E t \in Threads :
    \/ OwnedLockCall(t)
    \/ owned_lock(t)
    \/ OwnedLockPoisoned(t)
    \/ OwnedDerefMut(t)
    \/ OwnedPanics(t)
    \/ OwnedDropGuard(t)
    \/ OwnedDropOwner(t)
    \/ IntoInnerGuard(t)
    \/ into_inner(t)

SpecOwned == InitOwned /\ [][NextOwned]_vars

\* the thread's OwnedMutexGuard has its std guard (field `guard` is Some)
OwnedGuardLive(t) == pc[t] \in {"owned_held", "owned_wrote", "owned_unwind"}

\* the handles to a mutex: one per thread that owns one or whose guard does
Handles(e) == Cardinality({ t \in Threads : target[t] = e })

\* C24: OwnedMutexGuard::into_inner releases the lock and hands the handle
\* back: once it has returned, the mutex is locked only if another thread's
\* guard locks it (so with no other holder a lock on the returned handle is
\* granted at once), the caller owns the handle the guard was made from, and
\* neither step of into_inner changes the reference count, which stays the
\* number of handles; the lock is never held without its holder's handle
IntoInnerHandsBack ==
    /\ [][ \A t \in Threads :
             (pc[t] \in {"owned_held", "owned_wrote", "into_inner"}
                /\ pc'[t] \in {"into_inner", "idle"} /\ pc'[t] # pc[t])
                => /\ strong' = strong
                   /\ target'[t] = target[t]
                   /\ target[t] # NoEntry
                   /\ \A e \in Slots : inner_locked'[e] =>
                        \E u \in Threads \ {t} :
                            OwnedGuardLive(u) /\ target[u] = e ]_vars
    /\ [] \A e \in Slots :
            /\ strong[e] = Handles(e)
            /\ inner_locked[e] =>
                 \E u \in Threads : OwnedGuardLive(u) /\ target[u] = e
    /\ [] \A t \in Threads :
            (pc[t] = "idle" /\ result[t] = "owner")
               => target[t] = TheMutex
    /\ [] \A t \in Threads :
            (pc[t] = "owned_lock" /\ ~inner_poisoned[target[t]]
               /\ \A u \in Threads : ~OwnedGuardLive(u))
               => ENABLED (owned_lock(t))

\* into_inner has returned the handle to one thread, which has locked it
\* again at once, while the other thread's handle is still counted
IntoInnerHandsBackWitness ==
    \E t \in Threads :
        /\ pc[t] = "owned_held" /\ todo = 0
        /\ strong[TheMutex] = NThreads
        /\ value[TheMutex] = InitialValue + 1
        /\ \A u \in Threads \ {t} : pc[u] = "idle" /\ result[u] = "none"

\* C25: at most one waiter on inner locks: lock waits for the inner Mutex
\* while it holds the outer lock, so at most one thread of the LockSpace is
\* in Mutex::lock of a per-entry Mutex, it is the holder of the outer lock,
\* and any other thread that calls lock or try_remove or finishes a guard
\* drop cannot get past names.lock()
OneInnerWaiter ==
    /\ Cardinality({ t \in Threads : pc[t] = "lock_inner" }) <= 1
    /\ \A t \in Threads :
          pc[t] = "lock_inner" =>
             /\ outer = t
             /\ \A u \in Threads \ {t} :
                   /\ pc[u] \notin {"lock_find", "lock_initial", "lock_guarded",
                                    "lock_poisoned", "remove_find",
                                    "drop_cleanup"}
                   /\ ~ENABLED (DropNamesLock(u))
                   /\ ~ENABLED (NamesLockPanics(u))
                   /\ \A k \in Keys :
                         /\ ~ENABLED (LockNamesLock(u, k))
                         /\ ~ENABLED (TryRemoveNamesLock(u, k))

\* a lock call holds the outer lock and is in Mutex::lock of the entry's
\* Mutex; the thread whose guard it waited for has unlocked and now waits in
\* names.lock() to finish the drop
OneInnerWaiterWitness ==
    \E t, u \in Threads :
        /\ pc[t] = "lock_inner" /\ outer = t
        /\ pc[u] = "drop_outer" /\ target[u] = target[t]

\* C26 as claimed: reference counts change only under the outer lock: every
\* step that changes the strong count of an entry (in lock and its Poisoned
\* return path, in the guard drop, in try_remove) is taken by the thread
\* that holds the outer lock
RefcountChangesUnderNames ==
    [][ \A e \in Slots :
          strong'[e] # strong[e]
             => \E t \in Threads : outer = t /\ pc'[t] # pc[t] ]_vars

\* C27: unreachable outcomes in try_remove_internal: whenever the count test
\* passes (strong count of the target at most 2, the outer lock held), the
\* entry's Mutex is not locked, so try_lock does not yield WouldBlock, and
\* the map still holds the target under its key, so map.remove is not None:
\* try_remove_internal never returns NotFound, and returns WouldBlock only
\* from the count test; this in the guard drop and in try_remove
UnreachableOutcomes ==
    \A t \in Threads :
        /\ pc[t] = "drop_cleanup" =>
             LET e == target[t]
                 r == try_remove_internal(names, strong, inner_locked,
                                          inner_poisoned, e, key[t])
             IN /\ outer = t
                /\ strong_count(strong, e) <= 2 =>
                      /\ try_lock(inner_locked, inner_poisoned, e) # "WouldBlock"
                      /\ names[key[t]] = e
                /\ r # "NotFound"
                /\ r = "WouldBlock" => strong_count(strong, e) > 2
        /\ (pc[t] = "remove_find" /\ contains_key(names, key[t])) =>
             LET e == names[key[t]]
                 cnt == ArcClone(strong, e)
                 r == try_remove_internal(names, cnt, inner_locked,
                                          inner_poisoned, e, key[t])
             IN /\ outer = t
                /\ strong_count(cnt, e) <= 2 =>
                      try_lock(inner_locked, inner_poisoned, e) # "WouldBlock"
                /\ r # "NotFound"
                /\ r = "WouldBlock" => strong_count(cnt, e) > 2

\* the drop of the last guard of a key under AutoCleanup is about to call
\* try_remove_internal: the count is 2, the test passes and the entry is
\* removed; the other thread has had WouldBlock from its try_remove
UnreachableOutcomesWitness ==
    \E t \in Threads :
        /\ pc[t] = "drop_cleanup" /\ IsAutoCleanup(cleanup)
        /\ strong_count(strong, target[t]) = 2
        /\ try_remove_internal(names, strong, inner_locked, inner_poisoned,
                               target[t], key[t]) = "Success"
        /\ \E u \in Threads : pc[u] = "idle" /\ result[u] = "WouldBlock"

====
